---------------------------- MODULE Spec2Model ----------------------------
(***************************************************************************)
(* PulumiProject (src/project.ts): the constructor maps the options        *)
(* (runtime, testStack, workDir) to a GitHub workflow "main" with the jobs *)
(* discover, test and deploy.  The workflow is then interpreted by the CI  *)
(* system on a push to main: discover runs the stack query and the filter, *)
(* test deploys the test stack, deploy expands over the published list.    *)
(*                                                                         *)
(* Text that the program only carries around (commands, action names) is a *)
(* TLA+ string.  Text that the program or the CI run takes apart (stack    *)
(* names, the working directory, the published output) is a sequence of    *)
(* one-character strings, so that quoting, serialising and parsing are     *)
(* computed and not assumed.                                               *)
(***************************************************************************)
EXTENDS Integers, Sequences, FiniteSets, TLC

VARIABLES
  options,      \* the PulumiProjectOptions handed to the constructor
  pc,           \* "new" | "synthesized" | "triggered"
  workflow,     \* the workflow "main": triggers and jobs
  stackLs,      \* what `pulumi stack ls --json` returns in this run
  status,       \* per job: "none" | "queued" | "running" | "success" | "failure" | "skipped"
  outputs,      \* job outputs of discover (the text written to $GITHUB_OUTPUT)
  instances,    \* deploy matrix instances: sequence of [stack, state]
  ups,          \* pulumi/actions invocations that have run: [job, index, stack, workDir]
  components    \* the components the constructor created: sequence of [type, options]

vars == <<options, pc, workflow, stackLs, status, outputs, instances, ups, components>>

-----------------------------------------------------------------------------
(* Bounds *)

MaxStacks == 3

-----------------------------------------------------------------------------
(* Text *)

Dev  == <<"d", "e", "v">>
Prod == <<"p", "r", "o", "d">>
Dot  == <<".">>
Infra == <<"i", "n", "f", "r", "a">>

\* the six runtimes of the option's type
RuntimeKind == {"python", "java", "go", "yaml", "nodejs", "dotnet"}

\* values a caller can pass as `runtime` (the type is erased at run time)
RuntimeInputs == RuntimeKind \cup {"ruby", ""}

\* values a caller can pass as `testStack`
TestStackInputs ==
  { Prod, Dev, <<"a">>, <<>>,
    <<"\\", "a">>, <<"\\", "\\", "a">>, <<"a", "'">>, <<"a", "\\">>, <<"\\", "b">> }

\* values a caller can pass as `workDir`
WorkDirInputs == { Infra, Dot, <<>> }

BaseOptions == [name |-> "test"]

OptionsOver(R, T, W) ==
  { r @@ t @@ w :
      r \in {BaseOptions} \cup { [name |-> "test", runtime |-> x] : x \in R },
      t \in {BaseOptions} \cup { [name |-> "test", testStack |-> x] : x \in T },
      w \in {BaseOptions} \cup { [name |-> "test", workDir |-> x] : x \in W } }

\* the empty object `{}`
EmptyObject == [k \in {} |-> k]

\* values a caller can pass as `projenrc`
ProjenrcInputs == { EmptyObject, [filename |-> ".projenrc.ts"] }

\* the options extended with an optional parent project and projenrc option
WithProject(O) ==
  { o @@ q @@ c :
      o \in O,
      q \in {BaseOptions, [name |-> "test", parent |-> "root"]},
      c \in {BaseOptions} \cup { [name |-> "test", projenrc |-> x] : x \in ProjenrcInputs } }

AllOptions == WithProject(OptionsOver(RuntimeInputs, TestStackInputs, WorkDirInputs))

\* `options.f ?? d`
Coalesce(o, f, d) == IF f \in DOMAIN o THEN o[f] ELSE d

-----------------------------------------------------------------------------
(* The constructor *)

\* the default of testStack replaced by another name
testStackOf_otherDefault(o) == Coalesce(o, "testStack", <<"t", "e", "s", "t">>)

testStackOf(o) == Coalesce(o, "testStack", Dev)
workDirOf(o)   == Coalesce(o, "workDir", Dot)
runtimeOf(o)   == Coalesce(o, "runtime", "nodejs")
projenrcOf(o)  == Coalesce(o, "projenrc", EmptyObject)

\* `this.parent`, set by the base constructor from the options
hasParent(o) == "parent" \in DOMAIN o

\* an object is truthy, the empty object too
Truthy(v) == DOMAIN v = DOMAIN v

\* the java case missing: java falls through to the default
installDepsCommand_noJava(runtime) ==
  CASE runtime = "python" -> "uv sync"
    [] runtime = "go"     -> "go mod download"
    [] runtime = "dotnet" -> "dotnet restore"
    [] runtime = "yaml"   -> "echo 'No dependencies to install for Pulumi YAML'"
    [] OTHER              -> "npm ci"

installDepsCommand(runtime) ==
  CASE runtime = "python" -> "uv sync"
    [] runtime = "go"     -> "go mod download"
    [] runtime = "dotnet" -> "dotnet restore"
    [] runtime = "java"   -> "mvn -B -DskipTests dependency:resolve"
    [] runtime = "yaml"   -> "echo 'No dependencies to install for Pulumi YAML'"
    [] OTHER              -> "npm ci"

\* the default arm missing: only the listed runtimes get a setup step
runtimeSetupStep_noDefault(runtime) ==
  CASE runtime = "python" ->
         << [uses |-> "actions/setup-python@v5", with |-> ("python-version" :> "3.x")] >>
    [] runtime = "go" ->
         << [uses |-> "actions/setup-go@v5", with |-> ("go-version" :> "stable")] >>
    [] runtime = "dotnet" ->
         << [uses |-> "actions/setup-dotnet@v4", with |-> ("dotnet-version" :> "8.x")] >>
    [] runtime = "java" ->
         << [uses |-> "actions/setup-java@v4",
             with |-> ("distribution" :> "temurin" @@ "java-version" :> "17")] >>
    [] runtime = "nodejs" ->
         << [uses |-> "actions/setup-node@v6", with |-> ("node-version" :> "lts/*")] >>
    [] OTHER -> << >>

\* `undefined` is the empty sequence, a step is a one-element sequence
runtimeSetupStep(runtime) ==
  CASE runtime = "python" ->
         << [uses |-> "actions/setup-python@v5", with |-> ("python-version" :> "3.x")] >>
    [] runtime = "go" ->
         << [uses |-> "actions/setup-go@v5", with |-> ("go-version" :> "stable")] >>
    [] runtime = "dotnet" ->
         << [uses |-> "actions/setup-dotnet@v4", with |-> ("dotnet-version" :> "8.x")] >>
    [] runtime = "java" ->
         << [uses |-> "actions/setup-java@v4",
             with |-> ("distribution" :> "temurin" @@ "java-version" :> "17")] >>
    [] runtime = "yaml" -> << >>
    [] OTHER ->
         << [uses |-> "actions/setup-node@v6", with |-> ("node-version" :> "lts/*")] >>

\* the runtime setup step placed after the install step
commonSetupSteps_setupLast(runtime) ==
  << [uses |-> "actions/checkout@v6"] >>
  \o << [name |-> "Install dependencies", run |-> installDepsCommand(runtime)] >>
  \o runtimeSetupStep(runtime)

commonSetupSteps(runtime) ==
  << [uses |-> "actions/checkout@v6"] >>
  \o runtimeSetupStep(runtime)
  \o << [name |-> "Install dependencies", run |-> installDepsCommand(runtime)] >>

\* the expression texts the workflow hands to the CI system
SecretGithubToken  == <<"${{ secrets.GITHUB_TOKEN }}">>
SecretPulumiToken  == <<"${{ secrets.PULUMI_ACCESS_TOKEN }}">>
MatrixStackExpr    == <<"${{ matrix.stack }}">>
DiscoverStacksRef  == "needs.discover.outputs.stacks"
EmptyArrayText     == <<"[", "]">>

\* the discover step: the script lists the stacks, maps them to their names,
\* filters with n !== '<testStack>' and writes the result as `stacks`
discoverStep(testStack, workDir) ==
  [ id |-> "discover",
    name |-> "Discover stacks",
    shell |-> "bash",
    workingDirectory |-> workDir,
    run |-> [ query |-> "pulumi stack ls --json",
              filterLiteral |-> testStack,
              outputName |-> "stacks" ] ]

discoverJob(runtime, testStack, workDir) ==
  [ needs |-> << >>,
    runsOn |-> <<"ubuntu-latest">>,
    steps |-> commonSetupSteps(runtime) \o << discoverStep(testStack, workDir) >>,
    outputs |-> [stacks |-> [stepId |-> "discover", outputName |-> "stacks"]] ]

\* stack-name and work-dir exchanged
pulumiUpWith_swapped(stackName, workDir) ==
  ( "command" :> <<"up">> @@
    "stack-name" :> workDir @@
    "work-dir" :> stackName @@
    "github-token" :> SecretGithubToken @@
    "comment-on-pr" :> <<"false">> @@
    "yes" :> <<"true">> )

pulumiUpWith(stackName, workDir) ==
  ( "command" :> <<"up">> @@
    "stack-name" :> stackName @@
    "work-dir" :> workDir @@
    "github-token" :> SecretGithubToken @@
    "comment-on-pr" :> <<"false">> @@
    "yes" :> <<"true">> )

\* the test job without its needs
testJob_noNeeds(runtime, testStack, workDir) ==
  [ needs |-> << >>,
    runsOn |-> <<"ubuntu-latest">>,
    steps |-> commonSetupSteps(runtime) \o
      << [ name |-> <<"Pulumi up (test stack: ">> \o testStack \o <<")">>,
           uses |-> "pulumi/actions@v6",
           with |-> pulumiUpWith(testStack, workDir),
           env  |-> [PULUMI_ACCESS_TOKEN |-> SecretPulumiToken] ] >> ]

\* the test job with the `if` of the deploy job
testJob_withIf(runtime, testStack, workDir) ==
  [ needs |-> <<"discover">>,
    runsOn |-> <<"ubuntu-latest">>,
    if |-> [op |-> "!=", left |-> DiscoverStacksRef, right |-> EmptyArrayText],
    steps |-> commonSetupSteps(runtime) \o
      << [ name |-> <<"Pulumi up (test stack: ">> \o testStack \o <<")">>,
           uses |-> "pulumi/actions@v6",
           with |-> pulumiUpWith(testStack, workDir),
           env  |-> [PULUMI_ACCESS_TOKEN |-> SecretPulumiToken] ] >> ]

\* the test job's step copied from the deploy job: the matrix stack name
testJob_matrixStack(runtime, testStack, workDir) ==
  [ needs |-> <<"discover">>,
    runsOn |-> <<"ubuntu-latest">>,
    steps |-> commonSetupSteps(runtime) \o
      << [ name |-> <<"Pulumi up (test stack: ">> \o testStack \o <<")">>,
           uses |-> "pulumi/actions@v6",
           with |-> pulumiUpWith(MatrixStackExpr, workDir),
           env  |-> [PULUMI_ACCESS_TOKEN |-> SecretPulumiToken] ] >> ]

testJob(runtime, testStack, workDir) ==
  [ needs |-> <<"discover">>,
    runsOn |-> <<"ubuntu-latest">>,
    steps |-> commonSetupSteps(runtime) \o
      << [ name |-> <<"Pulumi up (test stack: ">> \o testStack \o <<")">>,
           uses |-> "pulumi/actions@v6",
           with |-> pulumiUpWith(testStack, workDir),
           env  |-> [PULUMI_ACCESS_TOKEN |-> SecretPulumiToken] ] >> ]

\* the deploy job needing discover only
deployJob_needsDiscoverOnly(runtime, workDir) ==
  [ needs |-> <<"discover">>,
    runsOn |-> <<"ubuntu-latest">>,
    if |-> [op |-> "!=", left |-> DiscoverStacksRef, right |-> EmptyArrayText],
    strategy |-> [matrix |-> [stack |-> [fromJSON |-> DiscoverStacksRef]]],
    steps |-> commonSetupSteps(runtime) \o
      << [ name |-> <<"Pulumi up (matrix stack)">>,
           uses |-> "pulumi/actions@v6",
           with |-> pulumiUpWith(MatrixStackExpr, workDir),
           env  |-> [PULUMI_ACCESS_TOKEN |-> SecretPulumiToken] ] >> ]

\* the deploy job's `if` comparing with the empty text instead of '[]'
deployJob_ifEmptyText(runtime, workDir) ==
  [ needs |-> <<"discover", "test">>,
    runsOn |-> <<"ubuntu-latest">>,
    if |-> [op |-> "!=", left |-> DiscoverStacksRef, right |-> << >>],
    strategy |-> [matrix |-> [stack |-> [fromJSON |-> DiscoverStacksRef]]],
    steps |-> commonSetupSteps(runtime) \o
      << [ name |-> <<"Pulumi up (matrix stack)">>,
           uses |-> "pulumi/actions@v6",
           with |-> pulumiUpWith(MatrixStackExpr, workDir),
           env  |-> [PULUMI_ACCESS_TOKEN |-> SecretPulumiToken] ] >> ]

\* the deploy job's step with the stack name of the test job's default
deployJob_devStack(runtime, workDir) ==
  [ needs |-> <<"discover", "test">>,
    runsOn |-> <<"ubuntu-latest">>,
    if |-> [op |-> "!=", left |-> DiscoverStacksRef, right |-> EmptyArrayText],
    strategy |-> [matrix |-> [stack |-> [fromJSON |-> DiscoverStacksRef]]],
    steps |-> commonSetupSteps(runtime) \o
      << [ name |-> <<"Pulumi up (matrix stack)">>,
           uses |-> "pulumi/actions@v6",
           with |-> pulumiUpWith(Dev, workDir),
           env  |-> [PULUMI_ACCESS_TOKEN |-> SecretPulumiToken] ] >> ]

\* the deploy job with the setup steps of nodejs whatever the runtime
deployJob_nodeSetup(runtime, workDir) ==
  [ needs |-> <<"discover", "test">>,
    runsOn |-> <<"ubuntu-latest">>,
    if |-> [op |-> "!=", left |-> DiscoverStacksRef, right |-> EmptyArrayText],
    strategy |-> [matrix |-> [stack |-> [fromJSON |-> DiscoverStacksRef]]],
    steps |-> commonSetupSteps("nodejs") \o
      << [ name |-> <<"Pulumi up (matrix stack)">>,
           uses |-> "pulumi/actions@v6",
           with |-> pulumiUpWith(MatrixStackExpr, workDir),
           env  |-> [PULUMI_ACCESS_TOKEN |-> SecretPulumiToken] ] >> ]

deployJob(runtime, workDir) ==
  [ needs |-> <<"discover", "test">>,
    runsOn |-> <<"ubuntu-latest">>,
    if |-> [op |-> "!=", left |-> DiscoverStacksRef, right |-> EmptyArrayText],
    strategy |-> [matrix |-> [stack |-> [fromJSON |-> DiscoverStacksRef]]],
    steps |-> commonSetupSteps(runtime) \o
      << [ name |-> <<"Pulumi up (matrix stack)">>,
           uses |-> "pulumi/actions@v6",
           with |-> pulumiUpWith(MatrixStackExpr, workDir),
           env  |-> [PULUMI_ACCESS_TOKEN |-> SecretPulumiToken] ] >> ]

\* the workflow also triggered by pushes to another branch
mainWorkflow_extraBranch(o) ==
  [ name |-> "main",
    on   |-> [push |-> [branches |-> <<"main", "feature">>]],
    jobs |-> [ discover |-> discoverJob(runtimeOf(o), testStackOf(o), workDirOf(o)),
               test     |-> testJob(runtimeOf(o), testStackOf(o), workDirOf(o)),
               deploy   |-> deployJob(runtimeOf(o), workDirOf(o)) ] ]

mainWorkflow(o) ==
  [ name |-> "main",
    on   |-> [push |-> [branches |-> <<"main">>]],
    jobs |-> [ discover |-> discoverJob(runtimeOf(o), testStackOf(o), workDirOf(o)),
               test     |-> testJob(runtimeOf(o), testStackOf(o), workDirOf(o)),
               deploy   |-> deployJob(runtimeOf(o), workDirOf(o)) ] ]

NoWorkflow == [name |-> "", on |-> [push |-> [branches |-> << >>]], jobs |-> << >>]

JobNames == {"discover", "test", "deploy"}

NoRun == [j \in JobNames |-> "none"]

\* the ProjenrcTs component created for a supplied projenrc option only
projenrcComponents_onlyIfSupplied(o) ==
  IF "parent" \notin DOMAIN o /\ "projenrc" \in DOMAIN o
  THEN << [type |-> "ProjenrcTs", options |-> o.projenrc] >>
  ELSE << >>

\* `if (!this.parent && projenrc) new ProjenrcTs(this, projenrc)`
projenrcComponents(o) ==
  IF ~hasParent(o) /\ Truthy(projenrcOf(o))
  THEN << [type |-> "ProjenrcTs", options |-> projenrcOf(o)] >>
  ELSE << >>

githubComponent == [type |-> "GitHub", options |-> [pullRequestLint |-> FALSE]]

Construct ==
  /\ pc = "new"
  /\ pc' = "synthesized"
  /\ components' = projenrcComponents(options) \o << githubComponent >>
  /\ workflow' = mainWorkflow(options)
  /\ UNCHANGED <<options, stackLs, status, outputs, instances, ups>>

-----------------------------------------------------------------------------
(* The discover script, as the CI runner executes it *)

Fail == [ok |-> FALSE, value |-> << >>]
Ok(v) == [ok |-> TRUE, value |-> v]

\* The script is the argument of `node -e "..."`: bash reads it inside double
\* quotes, where a backslash followed by a backslash is one backslash and
\* every other character of the inputs used here stands for itself.
RECURSIVE BashDoubleQuoted(_)
BashDoubleQuoted(s) ==
  IF s = << >> THEN << >>
  ELSE IF Len(s) >= 2 /\ s[1] = "\\" /\ s[2] = "\\"
       THEN <<"\\">> \o BashDoubleQuoted(SubSeq(s, 3, Len(s)))
       ELSE <<s[1]>> \o BashDoubleQuoted(Tail(s))

\* the character a JavaScript escape \c denotes
JsEscape(c) ==
  CASE c = "b" -> "<BS>"
    [] c = "f" -> "<FF>"
    [] c = "n" -> "<LF>"
    [] c = "r" -> "<CR>"
    [] c = "t" -> "<TAB>"
    [] c = "v" -> "<VT>"
    [] OTHER   -> c

\* The value of the JavaScript literal '<s>' in n!=='<s>', or Fail when the
\* script does not parse: an unescaped quote ends the literal early, a
\* trailing backslash escapes the closing quote.
RECURSIVE JsSingleQuoted(_)
JsSingleQuoted(s) ==
  IF s = << >> THEN Ok(<< >>)
  ELSE IF s[1] = "'" THEN Fail
  ELSE IF s[1] = "\\"
       THEN IF Len(s) = 1 THEN Fail
            ELSE LET rest == JsSingleQuoted(SubSeq(s, 3, Len(s)))
                 IN  IF rest.ok THEN Ok(<<JsEscape(s[2])>> \o rest.value) ELSE Fail
       ELSE LET rest == JsSingleQuoted(Tail(s))
            IN  IF rest.ok THEN Ok(<<s[1]>> \o rest.value) ELSE Fail

\* the filter keeping the test stack instead of dropping it
Filtered_inverted(names, lit) == SelectSeq(names, LAMBDA n : n = lit)

\* the filter returning the names as they are
Filtered_keepAll(names, lit) == names

\* names.filter(n => n !== lit)
Filtered(names, lit) == SelectSeq(names, LAMBDA n : n # lit)

\* JSON.stringify of one string
RECURSIVE JsonChars(_)
JsonChars(s) ==
  IF s = << >> THEN << >>
  ELSE (IF s[1] \in {"\"", "\\"} THEN <<"\\", s[1]>> ELSE <<s[1]>>)
       \o JsonChars(Tail(s))

JsonString(s) == <<"\"">> \o JsonChars(s) \o <<"\"">>

\* the elements joined without the separating comma
RECURSIVE JsonElements_noComma(_)
JsonElements_noComma(list) ==
  IF list = << >> THEN << >>
  ELSE JsonString(list[1]) \o JsonElements_noComma(Tail(list))

\* JSON.stringify of an array of strings
RECURSIVE JsonElements(_)
JsonElements(list) ==
  IF list = << >> THEN << >>
  ELSE IF Len(list) = 1 THEN JsonString(list[1])
  ELSE JsonString(list[1]) \o <<",">> \o JsonElements(Tail(list))

JsonStringify(list) == <<"[">> \o JsonElements(list) \o <<"]">>

\* data.map(s => s.name)
RECURSIVE StackNamesOf(_)
StackNamesOf(data) ==
  IF data = << >> THEN << >> ELSE <<data[1].name>> \o StackNamesOf(Tail(data))

\* the script publishing the names without filtering them
DiscoverScript_noFilter(step, data) ==
  LET lit == JsSingleQuoted(BashDoubleQuoted(step.run.filterLiteral))
  IN  IF lit.ok
      THEN Ok(JsonStringify(StackNamesOf(data)))
      ELSE Fail

\* the run script of the discover step on the output `data` of the stack
\* query: the text written as `stacks`, or Fail (set -euo pipefail)
DiscoverScript(step, data) ==
  LET lit == JsSingleQuoted(BashDoubleQuoted(step.run.filterLiteral))
  IN  IF lit.ok
      THEN Ok(JsonStringify(Filtered(StackNamesOf(data), lit.value)))
      ELSE Fail

-----------------------------------------------------------------------------
(* The expressions of the deploy job, as the CI system evaluates them *)

\* fromJSON on the text of an array of strings
RECURSIVE ParseString(_, _, _)
ParseString(t, i, acc) ==
  \* t[i] is the first character after the opening quote
  IF i > Len(t) THEN [ok |-> FALSE, value |-> << >>, next |-> i]
  ELSE IF t[i] = "\"" THEN [ok |-> TRUE, value |-> acc, next |-> i + 1]
  ELSE IF t[i] = "\\"
       THEN IF i + 1 > Len(t) THEN [ok |-> FALSE, value |-> << >>, next |-> i]
            ELSE ParseString(t, i + 2, Append(acc, t[i + 1]))
       ELSE ParseString(t, i + 1, Append(acc, t[i]))

RECURSIVE ParseElements(_, _, _)
ParseElements(t, i, acc) ==
  \* t[i] starts an element
  IF i > Len(t) \/ t[i] # "\"" THEN Fail
  ELSE LET str == ParseString(t, i + 1, << >>)
       IN  IF ~str.ok THEN Fail
           ELSE IF str.next > Len(t) THEN Fail
           ELSE IF t[str.next] = "]" /\ str.next = Len(t)
                THEN Ok(Append(acc, str.value))
           ELSE IF t[str.next] = ","
                THEN ParseElements(t, str.next + 1, Append(acc, str.value))
           ELSE Fail

fromJSON(t) ==
  IF Len(t) < 2 \/ t[1] # "[" THEN Fail
  ELSE IF t = EmptyArrayText THEN Ok(<< >>)
  ELSE ParseElements(t, 2, << >>)

\* the value of a context reference
Lookup(ref, outs) ==
  IF ref = DiscoverStacksRef /\ "stacks" \in DOMAIN outs THEN outs.stacks ELSE << >>

\* the `if` of a job; a job without `if` runs
EvalIf(job, outs) ==
  IF "if" \notin DOMAIN job THEN TRUE
  ELSE IF job.if.op = "!=" THEN Lookup(job.if.left, outs) # job.if.right
  ELSE Lookup(job.if.left, outs) = job.if.right

\* ${{ matrix.stack }} in a `with` value of a matrix instance
Resolve(text, stack) == IF text = MatrixStackExpr THEN stack ELSE text

-----------------------------------------------------------------------------
(* A run of the workflow *)

Range(s) == { s[i] : i \in 1..Len(s) }

StackNames == { Dev, Prod, <<"a">>, <<"b">> }

\* the stack query lists each stack of the project once
StackLists ==
  { l \in UNION { [1..n -> StackNames] : n \in 0..MaxStacks } :
      \A i, j \in 1..Len(l) : l[i] = l[j] => i = j }

Branches == {"main", "feature"}

NeedsMet(j)    == \A n \in Range(workflow.jobs[j].needs) : status[n] = "success"
NeedsBroken(j) == \E n \in Range(workflow.jobs[j].needs) : status[n] \in {"failure", "skipped"}

LastStep(j) == workflow.jobs[j].steps[Len(workflow.jobs[j].steps)]

\* a push: the workflow runs when the branch is one of its triggers
Push ==
  /\ pc = "synthesized"
  /\ \E b \in Branches : b \in Range(workflow.on.push.branches)
  /\ \E l \in StackLists : stackLs' = [i \in 1..Len(l) |-> [name |-> l[i]]]
  /\ pc' = "triggered"
  /\ status' = [j \in JobNames |-> "pending"]
  /\ UNCHANGED <<components, options, workflow, outputs, instances, ups>>

\* a job starts once its needs succeeded and its `if`, when it has one, holds
StartJob(j) ==
  /\ pc = "triggered"
  /\ status[j] = "pending"
  /\ NeedsMet(j)
  /\ EvalIf(workflow.jobs[j], outputs)
  /\ status' = [status EXCEPT ![j] = "running"]
  /\ UNCHANGED <<components, options, pc, workflow, stackLs, outputs, instances, ups>>

\* a job whose needs did not all succeed, or whose `if` does not hold, is
\* skipped
SkipJob(j) ==
  /\ pc = "triggered"
  /\ status[j] = "pending"
  /\ \/ NeedsBroken(j)
     \/ NeedsMet(j) /\ ~EvalIf(workflow.jobs[j], outputs)
  /\ status' = [status EXCEPT ![j] = "skipped"]
  /\ UNCHANGED <<components, options, pc, workflow, stackLs, outputs, instances, ups>>

\* the outputs of a job: each declared output reads the named output of
\* the step with the declared id, and is the empty text without such a step
JobOutputs(job, step, written) ==
  [ k \in DOMAIN job.outputs |->
      IF /\ "id" \in DOMAIN step
         /\ job.outputs[k].stepId = step.id
         /\ job.outputs[k].outputName = step.run.outputName
      THEN written
      ELSE << >> ]

DiscoverSucceeds ==
  /\ status.discover = "running"
  /\ LET r == DiscoverScript(LastStep("discover"), stackLs)
     IN  /\ r.ok
         /\ outputs' = JobOutputs(workflow.jobs.discover, LastStep("discover"), r.value)
  /\ status' = [status EXCEPT !.discover = "success"]
  /\ UNCHANGED <<components, options, pc, workflow, stackLs, instances, ups>>

\* a setup step, the stack query or the script fails
DiscoverFails ==
  /\ status.discover = "running"
  /\ status' = [status EXCEPT !.discover = "failure"]
  /\ UNCHANGED <<components, options, pc, workflow, stackLs, outputs, instances, ups>>

TestSucceeds ==
  /\ status.test = "running"
  /\ status' = [status EXCEPT !.test = "success"]
  /\ ups' = ups \cup { [ job |-> "test", index |-> 0,
                         stack |-> LastStep("test").with["stack-name"],
                         workDir |-> LastStep("test").with["work-dir"] ] }
  /\ UNCHANGED <<components, options, pc, workflow, stackLs, outputs, instances>>

TestFails ==
  /\ status.test = "running"
  /\ status' = [status EXCEPT !.test = "failure"]
  /\ UNCHANGED <<components, options, pc, workflow, stackLs, outputs, instances, ups>>

\* deploy: the `if` is evaluated once the needs succeeded, then the matrix
\* is expanded; a matrix that does not parse or has no values is an error
EvaluateDeploy ==
  /\ pc = "triggered"
  /\ status.deploy = "pending"
  /\ NeedsMet("deploy")
  /\ LET job == workflow.jobs.deploy
         m   == fromJSON(Lookup(job.strategy.matrix.stack.fromJSON, outputs))
     IN  IF ~EvalIf(job, outputs)
         THEN /\ status' = [status EXCEPT !.deploy = "skipped"]
              /\ instances' = instances
         ELSE IF ~m.ok \/ m.value = << >>
         THEN /\ status' = [status EXCEPT !.deploy = "failure"]
              /\ instances' = instances
         ELSE /\ status' = [status EXCEPT !.deploy = "running"]
              /\ instances' = [i \in 1..Len(m.value) |->
                                 [stack |-> m.value[i], state |-> "queued"]]
  /\ UNCHANGED <<components, options, pc, workflow, stackLs, outputs, ups>>

StartInstance(i) ==
  /\ status.deploy = "running"
  /\ instances[i].state = "queued"
  /\ instances' = [instances EXCEPT ![i].state = "running"]
  /\ UNCHANGED <<components, options, pc, workflow, stackLs, status, outputs, ups>>

InstanceSucceeds(i) ==
  /\ status.deploy = "running"
  /\ instances[i].state = "running"
  /\ instances' = [instances EXCEPT ![i].state = "success"]
  /\ ups' = ups \cup { [ job |-> "deploy", index |-> i,
                         stack |-> Resolve(LastStep("deploy").with["stack-name"],
                                           instances[i].stack),
                         workDir |-> LastStep("deploy").with["work-dir"] ] }
  /\ UNCHANGED <<components, options, pc, workflow, stackLs, status, outputs>>

InstanceFails(i) ==
  /\ status.deploy = "running"
  /\ instances[i].state = "running"
  /\ instances' = [instances EXCEPT ![i].state = "failure"]
  /\ UNCHANGED <<components, options, pc, workflow, stackLs, status, outputs, ups>>

\* the strategy sets no fail-fast, so it is on: once an instance failed the
\* instances that have not finished are cancelled
CancelInstance(i) ==
  /\ status.deploy = "running"
  /\ instances[i].state \in {"queued", "running"}
  /\ \E k \in 1..Len(instances) : instances[k].state = "failure"
  /\ instances' = [instances EXCEPT ![i].state = "cancelled"]
  /\ UNCHANGED <<components, options, pc, workflow, stackLs, status, outputs, ups>>

CompleteDeploy ==
  /\ status.deploy = "running"
  /\ \A k \in 1..Len(instances) : instances[k].state \in {"success", "failure", "cancelled"}
  /\ status' = [status EXCEPT !.deploy =
                  IF \A k \in 1..Len(instances) : instances[k].state = "success"
                  THEN "success" ELSE "failure"]
  /\ UNCHANGED <<components, options, pc, workflow, stackLs, outputs, instances, ups>>

-----------------------------------------------------------------------------
(* Specifications *)

InitState ==
  /\ pc = "new"
  /\ workflow = NoWorkflow
  /\ stackLs = << >>
  /\ status = NoRun
  /\ outputs = << >>
  /\ instances = << >>
  /\ ups = {}
  /\ components = << >>

\* synthesis over every combination of the options
Init ==
  /\ options \in AllOptions
  /\ InitState

Next == Construct

Spec == Init /\ [][Next]_vars

\* synthesis followed by a run of the workflow
CIOptions == OptionsOver({"yaml"}, TestStackInputs, {Infra})

CIInit ==
  /\ options \in CIOptions
  /\ InitState

CINext ==
  \/ Construct
  \/ Push
  \/ StartJob("discover")
  \/ StartJob("test")
  \/ \E j \in JobNames : SkipJob(j)
  \/ DiscoverSucceeds
  \/ DiscoverFails
  \/ TestSucceeds
  \/ TestFails
  \/ EvaluateDeploy
  \/ \E i \in 1..Len(instances) : StartInstance(i)
  \/ \E i \in 1..Len(instances) : InstanceSucceeds(i)
  \/ \E i \in 1..Len(instances) : InstanceFails(i)
  \/ \E i \in 1..Len(instances) : CancelInstance(i)
  \/ CompleteDeploy

CISpec == CIInit /\ [][CINext]_vars

\* the CI system starts every job whose needs are settled and every job
\* and matrix instance it started comes to an end
CIFairOptions == OptionsOver({"yaml"}, {Prod}, { })

CIFairInit ==
  /\ options \in CIFairOptions
  /\ InitState

CIFairSpec == CIFairInit /\ [][CINext]_vars /\ WF_vars(CINext)

-----------------------------------------------------------------------------
(* Reading the emitted workflow *)

Synthesized == pc \in {"synthesized", "triggered"}

Supplied(f) == f \in DOMAIN options

StepsOfJob(j) == workflow.jobs[j].steps

IsRuntimeSetup(s) ==
  "uses" \in DOMAIN s /\ s.uses \notin {"actions/checkout@v6", "pulumi/actions@v6"}

IsInstall(s) == "run" \in DOMAIN s /\ "id" \notin DOMAIN s

IsCheckout(s) == "uses" \in DOMAIN s /\ s.uses = "actions/checkout@v6"

SetupStepsOfJob(j) == SelectSeq(StepsOfJob(j), IsRuntimeSetup)

InstallStepsOfJob(j) == SelectSeq(StepsOfJob(j), IsInstall)

\* the install command and setup step of job j are those of the table row
TableInstall(r) ==
  CASE r = "python" -> "uv sync"
    [] r = "go"     -> "go mod download"
    [] r = "dotnet" -> "dotnet restore"
    [] r = "java"   -> "mvn -B -DskipTests dependency:resolve"
    [] r = "yaml"   -> "echo 'No dependencies to install for Pulumi YAML'"
    [] r = "nodejs" -> "npm ci"

TableSetup(r) ==
  CASE r = "python" -> "actions/setup-python@v5"
    [] r = "go"     -> "actions/setup-go@v5"
    [] r = "dotnet" -> "actions/setup-dotnet@v4"
    [] r = "java"   -> "actions/setup-java@v4"
    [] r = "nodejs" -> "actions/setup-node@v6"

TableSetupWith(r, w) ==
  CASE r = "go"     -> "go-version" \in DOMAIN w /\ w["go-version"] = "stable"
    [] r = "java"   -> "distribution" \in DOMAIN w /\ w["distribution"] = "temurin"
    [] r = "nodejs" -> "node-version" \in DOMAIN w /\ w["node-version"] = "lts/*"
    [] OTHER        -> TRUE

JobHasPair(j, r) ==
  /\ Len(InstallStepsOfJob(j)) = 1
  /\ InstallStepsOfJob(j)[1].run = TableInstall(r)
  /\ IF r = "yaml"
     THEN SetupStepsOfJob(j) = << >>
     ELSE /\ Len(SetupStepsOfJob(j)) = 1
          /\ SetupStepsOfJob(j)[1].uses = TableSetup(r)
          /\ TableSetupWith(r, SetupStepsOfJob(j)[1].with)

-----------------------------------------------------------------------------
(* C1: for each of the six runtimes python, go, dotnet, java, yaml, nodejs  *)
(* the constructed workflow carries, in every job, exactly the install     *)
(* command and the setup step of the table row of that runtime.            *)
C1_RuntimeTable ==
  (Synthesized /\ Supplied("runtime") /\ options.runtime \in RuntimeKind)
    => \A j \in JobNames : JobHasPair(j, options.runtime)

C1_Witness ==
  /\ Synthesized
  /\ Supplied("runtime") /\ options.runtime = "java"
  /\ InstallStepsOfJob("deploy")[1].run = "mvn -B -DskipTests dependency:resolve"
  /\ SetupStepsOfJob("deploy")[1].with["distribution"] = "temurin"

(* C2: for a runtime outside the six (also an absent one) construction     *)
(* succeeds and every job carries the nodejs pair, 'npm ci' and setup-node: *)
(* command and setup step fall back together.                              *)
C2_FallbackToNodejs ==
  (pc # "new" /\ (~Supplied("runtime") \/ options.runtime \notin RuntimeKind))
    => /\ Synthesized
       /\ \A j \in JobNames : JobHasPair(j, "nodejs")

C2_Witness ==
  /\ Synthesized
  /\ Supplied("runtime") /\ options.runtime = "ruby"
  /\ InstallStepsOfJob("discover")[1].run = "npm ci"
  /\ SetupStepsOfJob("discover")[1].uses = "actions/setup-node@v6"

(* C3: the emitted job graph has needs(discover) = {}, needs(test) =       *)
(* {discover} and needs(deploy) = {discover, test}, whatever the options.  *)
C3_NeedsEdges ==
  Synthesized
    => /\ { workflow.jobs.discover.needs[i] : i \in 1..Len(workflow.jobs.discover.needs) } = {}
       /\ { workflow.jobs.test.needs[i] : i \in 1..Len(workflow.jobs.test.needs) } = {"discover"}
       /\ { workflow.jobs.deploy.needs[i] : i \in 1..Len(workflow.jobs.deploy.needs) }
            = {"discover", "test"}

C3_Witness ==
  /\ Synthesized
  /\ Supplied("testStack") /\ Supplied("workDir") /\ Supplied("runtime")
  /\ workflow.jobs.deploy.needs = <<"discover", "test">>

(* C8: with runtime yaml every job starts with exactly checkout and        *)
(* install-dependencies and has no runtime setup step; with any other      *)
(* runtime every job starts with checkout, runtime setup, install, in that *)
(* order.  The job's own step follows the common steps.                    *)
C8_CommonSetupSteps ==
  Synthesized =>
    \A j \in JobNames :
      LET st == StepsOfJob(j)
      IN  IF Supplied("runtime") /\ options.runtime = "yaml"
          THEN /\ Len(st) = 3
               /\ IsCheckout(st[1])
               /\ IsInstall(st[2])
               /\ \A i \in 1..Len(st) : ~IsRuntimeSetup(st[i])
          ELSE /\ Len(st) = 4
               /\ IsCheckout(st[1])
               /\ IsRuntimeSetup(st[2])
               /\ IsInstall(st[3])
               /\ ~IsRuntimeSetup(st[4]) /\ ~IsInstall(st[4]) /\ ~IsCheckout(st[4])

C8_Witness ==
  /\ Synthesized
  /\ Supplied("runtime") /\ options.runtime = "yaml"
  /\ Len(StepsOfJob("test")) = 3

(* C9: the deploy-action step of the test job carries the supplied         *)
(* testStack as stack-name and the supplied workDir as work-dir, and its   *)
(* stack-name is not the matrix expression.                                *)
C9_TestJobStackAndWorkDir ==
  Synthesized =>
    LET st == StepsOfJob("test")[Len(StepsOfJob("test"))]
    IN  /\ st.uses = "pulumi/actions@v6"
        /\ st.with["command"] = <<"up">>
        /\ Supplied("testStack") => st.with["stack-name"] = options.testStack
        /\ Supplied("workDir") => st.with["work-dir"] = options.workDir
        /\ st.with["stack-name"] # MatrixStackExpr

C9_Witness ==
  /\ Synthesized
  /\ Supplied("testStack") /\ options.testStack = Prod
  /\ Supplied("workDir") /\ options.workDir = Infra
  /\ StepsOfJob("test")[Len(StepsOfJob("test"))].with["stack-name"] = Prod
  /\ StepsOfJob("test")[Len(StepsOfJob("test"))].with["work-dir"] = Infra

(* C10: without testStack the discover filter and the test job use 'dev';  *)
(* without workDir the discover step and both deploy-action steps use '.'; *)
(* without runtime the nodejs pair is used.                                *)
C10_Defaults ==
  Synthesized =>
    LET disc == StepsOfJob("discover")[Len(StepsOfJob("discover"))]
        test == StepsOfJob("test")[Len(StepsOfJob("test"))]
        depl == StepsOfJob("deploy")[Len(StepsOfJob("deploy"))]
    IN  /\ ~Supplied("testStack") =>
             /\ disc.run.filterLiteral = <<"d", "e", "v">>
             /\ test.with["stack-name"] = <<"d", "e", "v">>
        /\ ~Supplied("workDir") =>
             /\ disc.workingDirectory = <<".">>
             /\ test.with["work-dir"] = <<".">>
             /\ depl.with["work-dir"] = <<".">>
        /\ ~Supplied("runtime") => \A j \in JobNames : JobHasPair(j, "nodejs")

C10_Witness ==
  /\ Synthesized
  /\ ~Supplied("testStack") /\ ~Supplied("workDir") /\ ~Supplied("runtime")
  /\ StepsOfJob("test")[Len(StepsOfJob("test"))].with["stack-name"] = <<"d", "e", "v">>

-----------------------------------------------------------------------------
(* Reading a run *)

Started(j) == status[j] \in {"running", "success", "failure"}

InstanceActed(i) == instances[i].state \in {"running", "success", "failure", "cancelled"}

SomeInstanceActed == \E i \in 1..Len(instances) : InstanceActed(i)

TestStackDeployed ==
  \E u \in ups : u.job = "test" /\ u.stack = testStackOf(options)

\* the stacks of the query other than the configured test stack
Remaining == { stackLs[i].name : i \in 1..Len(stackLs) } \ { testStackOf(options) }

(* C4: in a run that honours the needs edges no deploy instance exists or  *)
(* acts before the test job has succeeded in deploying the test stack, and *)
(* the test job does not start before discover has succeeded.              *)
C4_TestStackFirst ==
  /\ (Started("deploy") \/ instances # << >> \/ (\E u \in ups : u.job = "deploy"))
       => (status.test = "success" /\ TestStackDeployed)
  /\ Started("test") => status.discover = "success"

C4_Witness ==
  /\ status.test = "success"
  /\ TestStackDeployed
  /\ Len(instances) >= 2
  /\ instances[1].state = "queued"
  /\ instances[2].state = "running"

(* C5: once discover and test have succeeded, the deploy job is skipped    *)
(* exactly when the published stacks output is the text '[]'; with any     *)
(* other text it runs.                                                     *)
C5_DeployIf ==
  (status.discover = "success" /\ status.test = "success" /\ status.deploy # "pending")
    => (status.deploy = "skipped" <=> outputs.stacks = <<"[", "]">>)

C5_Witness ==
  /\ status.discover = "success" /\ status.test = "success"
  /\ status.deploy = "skipped"
  /\ outputs.stacks = <<"[", "]">>

-----------------------------------------------------------------------------
(* C12: the emitted workflow has the single trigger push, on the single    *)
(* branch main, and exactly the three jobs discover, test and deploy,      *)
(* whatever the options.                                                   *)
C12_TriggerAndJobs ==
  Synthesized
    => /\ DOMAIN workflow.on = {"push"}
       /\ DOMAIN workflow.on.push = {"branches"}
       /\ workflow.on.push.branches = <<"main">>
       /\ DOMAIN workflow.jobs = {"discover", "test", "deploy"}

C12_Witness ==
  /\ Synthesized
  /\ Supplied("runtime") /\ options.runtime = "go"
  /\ Supplied("testStack") /\ options.testStack = Prod
  /\ Cardinality(DOMAIN workflow.jobs) = 3
  /\ workflow.on.push.branches[1] = "main"

(* C13: the three jobs start with the same steps in the same order, the    *)
(* common setup steps (checkout first, install-dependencies last), and     *)
(* each job has exactly one step after them.                               *)
CommonPrefixOfJob(j) == SubSeq(StepsOfJob(j), 1, Len(StepsOfJob(j)) - 1)

C13_SharedPrefix ==
  Synthesized
    => \A j \in JobNames :
         /\ Len(StepsOfJob(j)) >= 3
         /\ CommonPrefixOfJob(j) = CommonPrefixOfJob("discover")
         /\ IsCheckout(CommonPrefixOfJob(j)[1])
         /\ IsInstall(CommonPrefixOfJob(j)[Len(CommonPrefixOfJob(j))])
         /\ LET own == StepsOfJob(j)[Len(StepsOfJob(j))]
            IN  IF j = "discover"
                THEN "id" \in DOMAIN own /\ own.id = "discover"
                ELSE "uses" \in DOMAIN own /\ own.uses = "pulumi/actions@v6"

C13_Witness ==
  /\ Synthesized
  /\ Supplied("runtime") /\ options.runtime = "python"
  /\ Len(CommonPrefixOfJob("deploy")) = 3
  /\ CommonPrefixOfJob("deploy") = CommonPrefixOfJob("test")
  /\ CommonPrefixOfJob("deploy")[2].uses = "actions/setup-python@v5"

-----------------------------------------------------------------------------
(* C19: the constructor creates the ProjenrcTs component exactly once when *)
(* the project has no parent, with or without a projenrc option, and does  *)
(* not create it when the project has a parent.                            *)
ProjenrcCount == Cardinality({ i \in 1..Len(components) : components[i].type = "ProjenrcTs" })

C19_ProjenrcOnce ==
  Synthesized
    => ProjenrcCount = (IF Supplied("parent") THEN 0 ELSE 1)

C19_Witness ==
  /\ Synthesized
  /\ ~Supplied("parent") /\ ~Supplied("projenrc")
  /\ ProjenrcCount = 1

-----------------------------------------------------------------------------
(* Reading the deploy matrix of a run *)

\* the list the deploy matrix reads from discover's output
PublishedList == fromJSON(outputs.stacks)

\* the stack the deploy-action step of instance i operates on
TargetOfInstance(i) ==
  Resolve(StepsOfJob("deploy")[Len(StepsOfJob("deploy"))].with["stack-name"],
          instances[i].stack)

\* the stack the deploy-action step of the test job operates on
TargetOfTest == StepsOfJob("test")[Len(StepsOfJob("test"))].with["stack-name"]

DeployUps == { u \in ups : u.job = "deploy" }

(* C14: the list published by the discover step is the list of the input   *)
(* stack names without the entries equal to the configured test-stack      *)
(* name: the others are kept, in their order, and nothing is added.        *)
C14_PublishedIsInputWithoutTestStack ==
  status.discover = "success"
    => /\ PublishedList.ok
       /\ PublishedList.value =
            SelectSeq(StackNamesOf(stackLs), LAMBDA n : n # testStackOf(options))

FilteredByScript ==
  Filtered(StackNamesOf(stackLs),
           JsSingleQuoted(BashDoubleQuoted(
             StepsOfJob("discover")[Len(StepsOfJob("discover"))].run.filterLiteral)).value)

C17_SerializeParseRoundTrip ==
  /\ Synthesized =>
       \E i \in 1..Len(StepsOfJob("discover")) :
         /\ "id" \in DOMAIN StepsOfJob("discover")[i]
         /\ StepsOfJob("discover")[i].id = workflow.jobs.discover.outputs.stacks.stepId
  /\ status.discover = "success"
       => /\ PublishedList.ok
          /\ PublishedList.value = FilteredByScript
  /\ instances # << >>
       => [i \in 1..Len(instances) |-> instances[i].stack] = FilteredByScript

C17_Witness ==
  /\ status.discover = "success"
  /\ Len(stackLs) = 3
  /\ Len(instances) = 2
  /\ Len(outputs.stacks) > 2

(* C18: a failed job halts its dependents: after discover failed neither   *)
(* the test job nor a deploy instance executes; after test failed no       *)
(* deploy instance executes, also when the published list is not empty.    *)
C18_FailureHaltsDependents ==
  /\ status.discover = "failure"
       => /\ ~Started("test") /\ ~Started("deploy")
          /\ instances = << >> /\ ups = {}
  /\ status.test = "failure"
       => /\ ~Started("deploy")
          /\ instances = << >> /\ DeployUps = {}

C18_Witness ==
  /\ status.discover = "success"
  /\ status.test = "failure"
  /\ outputs.stacks # <<"[", "]">>
  /\ status.deploy = "skipped"

(* C20, as stated: in a run in which discover and test succeeded and the   *)
(* published list is not empty, every published stack has been deployed    *)
(* by a deploy instance once the deploy job has come to its end.           *)
AllPublishedDeployed ==
  \A i \in 1..Len(PublishedList.value) :
    \E u \in DeployUps : u.stack = PublishedList.value[i]

TestUps == { u \in ups : u.job = "test" }

TestStackDeployedOnce ==
  /\ Cardinality(TestUps) = 1
  /\ \A u \in TestUps : u.stack = testStackOf(options)

=============================================================================
